---- MODULE Spec2Model ----
(***************************************************************************)
(* Model of sktime's ClassificationResultCollator (enumeration cache,      *)
(* parameter validation, get_results) and of the dtw-python aligner        *)
(* adapters AlignerDTW / AlignerDTWdist.                                   *)
(*                                                                         *)
(* Python values are represented as follows.                               *)
(*   str            a TLA+ string                                          *)
(*   None           the reserved string PyNone (never a str of an input)   *)
(*   list of str    a TLA+ sequence                                        *)
(*   an argument that may be a str, a list or None is tagged:              *)
(*       Str(s), Lst(q), NoneV                                             *)
(*   a url          a sequence of text segments; "a in b" on text is       *)
(*                  containment of a contiguous run of segments            *)
(*   an exception   a record [exc, template, parameter, value, allowed]    *)
(*                  holding the exception type, which message it carries   *)
(*                  and what is formatted into the message: the parameter  *)
(*                  name, the offending value (tagged) and the list shown  *)
(***************************************************************************)
EXTENDS Integers, Sequences, FiniteSets, TLC

VARIABLES
    loaded,            \* the collator module has been imported (class body executed)
    remote,            \* what each enumeration endpoint currently serves
    enumCache,         \* lru_cache of get_enum_from_url: (url, key) -> entry
    enumFetches,       \* requests.get calls made by get_enum_from_url, per (url, key)
    VALID_CLASSIFIERS, \* class attribute, set when the class body runs
    VALID_PROBLEMS,    \* class attribute, set when the class body runs
    collator,          \* the ClassificationResultCollator object, or NoObject
    aligner,           \* the aligner object, or NoObject
    constructed,       \* the arguments the aligner object was constructed with
    engineCalls,       \* calls made to the external dtw engine
    ret                \* the last operation: its name, arguments and outcome

vars == <<loaded, remote, enumCache, enumFetches, VALID_CLASSIFIERS,
          VALID_PROBLEMS, collator, aligner, constructed, engineCalls, ret>>

---------------------------------------------------------------------------
(* Bounds of the model *)

\* longest list of values passed to _check_valid_parameters
MaxLen == 2
\* fetches of one (url, key) pair a run may make
MaxFetch == 2
\* largest overall distance the external engine reports
MaxDist == 2
\* calls to the external engine a run may make
MaxEngineCalls == 2

---------------------------------------------------------------------------
(* Python values *)

PyNone == "<None>"
Str(s) == [kind |-> "str", s |-> s]
Lst(q) == [kind |-> "list", items |-> q]
NoneV == [kind |-> "none"]

Range(q) == {q[i] : i \in 1..Len(q)}

\* sequences over S of length at most n
SeqUpTo(S, n) == UNION {[1..k -> S] : k \in 0..n}

\* text containment "needle in text" on segment sequences
Contains(text, needle) ==
    \E i \in 1..(Len(text) - Len(needle) + 1) :
        SubSeq(text, i, i + Len(needle) - 1) = needle

NoError == [exc |-> "", template |-> "", parameter |-> "", value |-> NoneV,
            allowed |-> <<>>]

Raise(exc, template, parameter, value, allowed) ==
    [exc |-> exc, template |-> template, parameter |-> parameter,
     value |-> value, allowed |-> allowed]

NoObject == [exists |-> FALSE]

---------------------------------------------------------------------------
(* ClassificationResultCollator._check_valid_parameters *)

\* `check_values is "*"`: CPython keeps one object per one-character
\* Latin-1 string, so for a str the identity test is true exactly of the
\* strings whose value is "*".
IsWildcard(s) == s = "*"

\* the nested function check(value): the exception it raises, or NoError
check(value, valid_list, parameter_name) ==
    IF value = PyNone
    THEN Raise("TypeError", "cannot be None", parameter_name, NoneV, <<>>)
    ELSE IF value \notin Range(valid_list)
    THEN Raise("TypeError", "is invalid", parameter_name, Str(value), valid_list)
    ELSE NoError

\* the loop `for val in check_values: check(val)`: the first exception raised
CheckEach(items, valid_list, parameter_name) ==
    LET bad == {i \in 1..Len(items) :
                   check(items[i], valid_list, parameter_name) # NoError}
    IN  IF bad = {} THEN NoError
        ELSE LET first == CHOOSE i \in bad : \A j \in bad : i <= j
             IN  check(items[first], valid_list, parameter_name)

Returned(v) == [ok |-> TRUE, value |-> v, err |-> NoError]
Raised(e) == [ok |-> FALSE, value |-> NoneV, err |-> e]

\* _check_valid_parameters without the wildcard branch of line 230
CheckValidParametersNoWildcard(check_values, valid_list, parameter_name) ==
    IF check_values.kind = "str"
    THEN LET e == check(check_values.s, valid_list, parameter_name)
         IN  IF e = NoError THEN Returned(check_values) ELSE Raised(e)
    ELSE IF check_values.kind = "none"
    THEN Raised(Raise("TypeError", "'NoneType' object is not iterable", "", NoneV, <<>>))
    ELSE LET e == CheckEach(check_values.items, valid_list, parameter_name)
         IN  IF e = NoError THEN Returned(check_values) ELSE Raised(e)

_check_valid_parameters(check_values, valid_list, parameter_name) ==
    IF check_values.kind = "str"
    THEN IF IsWildcard(check_values.s)
         THEN Returned(Lst(valid_list))
         ELSE LET e == check(check_values.s, valid_list, parameter_name)
              IN  IF e = NoError THEN Returned(check_values) ELSE Raised(e)
    ELSE IF check_values.kind = "none"
    \* `for val in None` raises before check() is ever called
    THEN Raised(Raise("TypeError", "'NoneType' object is not iterable", "", NoneV, <<>>))
    ELSE LET e == CheckEach(check_values.items, valid_list, parameter_name)
         IN  IF e = NoError THEN Returned(check_values) ELSE Raised(e)

---------------------------------------------------------------------------
(* get_enum_from_url and its lru_cache *)

PROBLEM_REQUEST_URL == "https://timeseriesclassification.com/JSON/datasetTable.json?order=asc"
CLASSIFIERS_REQUEST_URL == "https://timeseriesclassification.com/JSON/algorithmTable.json?order=asc"

EnumUrls == {CLASSIFIERS_REQUEST_URL, PROBLEM_REQUEST_URL}

\* the JSON arrays an endpoint may serve: records in source order; the last
\* record of the second classifier table lacks the key "Type"
ClassifierTables ==
    { << [Acronym |-> "BOSS", Type |-> "dictionary"],
         [Acronym |-> "TSF", Type |-> "interval"] >>,
      << [Acronym |-> "TSF", Type |-> "interval"],
         [Acronym |-> "BOSS"] >> }
ProblemTables ==
    { << [Dataset |-> "Adiac", Type |-> "IMAGE"],
         [Dataset |-> "Beef", Type |-> "SPECTRO"] >>,
      << [Dataset |-> "Beef", Type |-> "SPECTRO"] >> }

TablesOf(url) == IF url = CLASSIFIERS_REQUEST_URL THEN ClassifierTables
                 ELSE ProblemTables

\* the (url, key) pairs the runs look up
LookupPairs ==
    { <<CLASSIFIERS_REQUEST_URL, "Acronym">>, <<CLASSIFIERS_REQUEST_URL, "Type">>,
      <<PROBLEM_REQUEST_URL, "Dataset">>, <<PROBLEM_REQUEST_URL, "Type">> }

NoEntry == [hit |-> FALSE, list |-> <<>>]
EmptyCache == [p \in LookupPairs |-> NoEntry]
NoFetches == [p \in LookupPairs |-> 0]

\* the body of get_enum_from_url: enum_arr after the loop, or the KeyError
\* of the first record without the key
EnumBody(responses, key) ==
    IF \E i \in 1..Len(responses) : key \notin DOMAIN responses[i]
    THEN Raised(Raise("KeyError", "key", "", Str(key), <<>>))
    ELSE Returned(Lst([i \in 1..Len(responses) |-> responses[i][key]]))

\* get_enum_from_url with no memoization: every call fetches
GetEnumUncached(url, key, net) ==
    LET p == <<url, key>>
        out == IF net = "fail"
               THEN Raised(Raise("RequestException", "fetch failed", "", NoneV, <<>>))
               ELSE EnumBody(remote[url], key)
    IN  [cache |-> enumCache,
         fetches |-> [enumFetches EXCEPT ![p] = @ + 1],
         fetched |-> TRUE,
         out |-> out]

\* get_enum_from_url(url, key) under @lru_cache(maxsize=None); net is what
\* requests.get(url).json() does if it is reached: "ok" or "fail".
\* The result: the cache and the fetch counts after the call, whether the
\* network was used, and the value returned or exception raised.
get_enum_from_url(url, key, net) ==
    LET p == <<url, key>>
    IN  IF enumCache[p].hit
        THEN [cache |-> enumCache, fetches |-> enumFetches, fetched |-> FALSE,
              out |-> Returned(Lst(enumCache[p].list))]
        ELSE LET out == IF net = "fail"
                        THEN Raised(Raise("RequestException", "fetch failed",
                                          "", NoneV, <<>>))
                        ELSE EnumBody(remote[url], key)
             IN  [cache |-> IF out.ok
                            THEN [enumCache EXCEPT
                                     ![p] = [hit |-> TRUE, list |-> out.value.items]]
                            ELSE enumCache,
                  fetches |-> [enumFetches EXCEPT ![p] = @ + 1],
                  fetched |-> TRUE,
                  out |-> out]

---------------------------------------------------------------------------
(* Inputs of the validation helper *)

\* the strings the runs pass as values and keep in reference lists
Values == {"a", "b", "*"}
ParamNames == {"x", "metric"}
RefLists == SeqUpTo(Values, MaxLen)
CheckInputs ==
    {Str(s) : s \in Values} \cup {NoneV}
        \cup {Lst(q) : q \in SeqUpTo(Values \cup {PyNone}, MaxLen)}

NoCall == [op |-> "none"]

\* state of the components a specification does not exercise
CollatorIdle ==
    /\ loaded = FALSE
    /\ remote = <<>>
    /\ enumCache = <<>>
    /\ enumFetches = <<>>
    /\ VALID_CLASSIFIERS = <<>>
    /\ VALID_PROBLEMS = <<>>
    /\ collator = NoObject

AlignerIdle ==
    /\ aligner = NoObject
    /\ constructed = NoObject
    /\ engineCalls = 0

collatorVars == <<loaded, remote, enumCache, enumFetches, VALID_CLASSIFIERS,
                  VALID_PROBLEMS, collator>>
alignerVars == <<aligner, constructed, engineCalls>>

\* the arguments of a call of the static method, drawn before it runs
InitCheck ==
    /\ CollatorIdle
    /\ AlignerIdle
    /\ ret \in {[op |-> "call _check_valid_parameters",
                 check_values |-> cv, valid_list |-> vl, parameter_name |-> pn] :
                    cv \in CheckInputs, vl \in RefLists, pn \in ParamNames}

\* the static method runs on the arguments drawn
CallCheckValidParameters ==
    /\ ret.op = "call _check_valid_parameters"
    /\ ret' = [op |-> "_check_valid_parameters",
               check_values |-> ret.check_values,
               valid_list |-> ret.valid_list,
               parameter_name |-> ret.parameter_name,
               out |-> _check_valid_parameters(ret.check_values, ret.valid_list,
                                               ret.parameter_name)]
    /\ UNCHANGED <<collatorVars, alignerVars>>

NextCheck == CallCheckValidParameters

SpecCheck == InitCheck /\ [][NextCheck]_vars

---------------------------------------------------------------------------
(* Claims about _check_valid_parameters *)

CheckCalled == ret.op = "_check_valid_parameters"

\* the values of an argument, in order: the str itself, or the list's items
ValuesOf(cv) == IF cv.kind = "str" THEN <<cv.s>>
                ELSE IF cv.kind = "list" THEN cv.items ELSE <<>>

HasNone(cv) == cv.kind = "none" \/ PyNone \in Range(ValuesOf(cv))

\* C5 (as claimed): whenever a value is None, as the whole argument or as an
\* element of a list, the helper fails with an error that mentions the
\* parameter name.
C5_NoneNamesParameter ==
    (CheckCalled /\ HasNone(ret.check_values))
        => (~ret.out.ok /\ ret.out.err.parameter = ret.parameter_name)

---------------------------------------------------------------------------
(* ClassificationResultCollator *)

VALID_TOOLKITS == <<"sktime", "tsml">>
VALID_METRICS == <<"accuracy", "f1">>
VALID_DOMAIN == <<"https://timeseriesclassification.com">>
\* the range of `self.resamples < 1 or self.resamples > 30`
MinResamples == 1
MaxResamples == 30

\* ResultCollator.get_results of the parent class: one fetch per configured
\* url, in order, each response formatted into a table; a transport error
\* propagates. failAt = 0: every fetch answers; failAt = i: fetch i fails.
ResultCollator_get_results(urls, failAt) ==
    IF failAt \in 1..Len(urls)
    THEN [fetches |-> failAt,
          out |-> Raised(Raise("RequestException", "fetch failed", "",
                                  Lst(urls[failAt]), <<>>))]
    ELSE [fetches |-> Len(urls),
          out |-> Returned(Lst([i \in 1..Len(urls) |-> [table_of |-> urls[i]]]))]

\* __init__: the object as constructed
NewCollator(urls, classifiers, problem_list, metric, resamples, toolkit) ==
    [exists |-> TRUE,
     urls |-> urls,
     classifiers |-> classifiers,
     problem_list |-> problem_list,
     metric |-> metric,
     resamples |-> resamples,
     toolkit |-> toolkit,
     _classifiers |-> Lst(<<>>),
     _problem_list |-> Lst(<<>>)]

\* the outcome of one get_results() call on `self`: the object afterwards,
\* the check that raised ("" if none did), the result-data fetches made and
\* the value returned or exception raised
Outcome(self, stage, fetches, out) ==
    [self |-> self, stage |-> stage, fetches |-> fetches, out |-> out]

\* get_results with the resamples check moved after the toolkit check
GetResultsResamplesLast(self, failAt) ==
    LET badUrls == {i \in 1..Len(self.urls) : ~Contains(self.urls[i], VALID_DOMAIN)}
        c == _check_valid_parameters(self.classifiers, VALID_CLASSIFIERS, "classifier")
        self1 == [self EXCEPT !._classifiers = c.value]
        p == _check_valid_parameters(self.problem_list, VALID_PROBLEMS, "problem")
        self2 == [self1 EXCEPT !._problem_list = p.value]
        m == _check_valid_parameters(self.metric, VALID_METRICS, "metric")
        t == _check_valid_parameters(self.toolkit, VALID_TOOLKITS, "toolkit")
        self3 == [self2 EXCEPT !.toolkit = t.value]
        f == ResultCollator_get_results(self.urls, failAt)
    IN  IF badUrls # {}
        THEN LET first == CHOOSE i \in badUrls : \A j \in badUrls : i <= j
             IN  Outcome(self, "urls", 0,
                         Raised(Raise("TypeError", "url is invalid", "",
                                      Lst(self.urls[first]), VALID_DOMAIN)))
        ELSE IF ~c.ok THEN Outcome(self, "classifiers", 0, Raised(c.err))
        ELSE IF ~p.ok THEN Outcome(self1, "problems", 0, Raised(p.err))
        ELSE IF ~m.ok THEN Outcome(self2, "metric", 0, Raised(m.err))
        ELSE IF ~t.ok THEN Outcome(self2, "toolkit", 0, Raised(t.err))
        ELSE IF self.resamples < MinResamples \/ self.resamples > MaxResamples
        THEN Outcome(self3, "resamples", 0,
                     Raised(Raise("TypeError", "number of resamples is invalid",
                                  "", self.metric, <<>>)))
        ELSE Outcome(self3, "", f.fetches, f.out)

\* get_results with the upper limit of the resamples check off by one
GetResultsResamplesOffByOne(self, failAt) ==
    LET badUrls == {i \in 1..Len(self.urls) : ~Contains(self.urls[i], VALID_DOMAIN)}
        c == _check_valid_parameters(self.classifiers, VALID_CLASSIFIERS, "classifier")
        self1 == [self EXCEPT !._classifiers = c.value]
        p == _check_valid_parameters(self.problem_list, VALID_PROBLEMS, "problem")
        self2 == [self1 EXCEPT !._problem_list = p.value]
        m == _check_valid_parameters(self.metric, VALID_METRICS, "metric")
        t == _check_valid_parameters(self.toolkit, VALID_TOOLKITS, "toolkit")
        self3 == [self2 EXCEPT !.toolkit = t.value]
        f == ResultCollator_get_results(self.urls, failAt)
    IN  IF badUrls # {}
        THEN LET first == CHOOSE i \in badUrls : \A j \in badUrls : i <= j
             IN  Outcome(self, "urls", 0,
                         Raised(Raise("TypeError", "url is invalid", "",
                                      Lst(self.urls[first]), VALID_DOMAIN)))
        ELSE IF ~c.ok THEN Outcome(self, "classifiers", 0, Raised(c.err))
        ELSE IF ~p.ok THEN Outcome(self1, "problems", 0, Raised(p.err))
        ELSE IF ~m.ok THEN Outcome(self2, "metric", 0, Raised(m.err))
        ELSE IF self.resamples < MinResamples \/ self.resamples >= MaxResamples
        THEN Outcome(self2, "resamples", 0,
                     Raised(Raise("TypeError", "number of resamples is invalid",
                                  "", self.metric, <<>>)))
        ELSE IF ~t.ok THEN Outcome(self2, "toolkit", 0, Raised(t.err))
        ELSE Outcome(self3, "", f.fetches, f.out)

\* ClassificationResultCollator.get_results, statement by statement
get_results(self, failAt) ==
    LET badUrls == {i \in 1..Len(self.urls) : ~Contains(self.urls[i], VALID_DOMAIN)}
        c == _check_valid_parameters(self.classifiers, VALID_CLASSIFIERS, "classifier")
        self1 == [self EXCEPT !._classifiers = c.value]
        p == _check_valid_parameters(self.problem_list, VALID_PROBLEMS, "problem")
        self2 == [self1 EXCEPT !._problem_list = p.value]
        m == _check_valid_parameters(self.metric, VALID_METRICS, "metric")
        t == _check_valid_parameters(self.toolkit, VALID_TOOLKITS, "toolkit")
        self3 == [self2 EXCEPT !.toolkit = t.value]
        f == ResultCollator_get_results(self.urls, failAt)
    IN  \* for url in self.urls: the first url without the domain raises
        IF badUrls # {}
        THEN LET first == CHOOSE i \in badUrls : \A j \in badUrls : i <= j
             IN  Outcome(self, "urls", 0,
                         Raised(Raise("TypeError", "url is invalid", "",
                                      Lst(self.urls[first]), VALID_DOMAIN)))
        ELSE IF ~c.ok THEN Outcome(self, "classifiers", 0, Raised(c.err))
        ELSE IF ~p.ok THEN Outcome(self1, "problems", 0, Raised(p.err))
        \* the value the metric check returns is dropped
        ELSE IF ~m.ok THEN Outcome(self2, "metric", 0, Raised(m.err))
        \* the message formats self.metric, not self.resamples
        ELSE IF self.resamples < MinResamples \/ self.resamples > MaxResamples
        THEN Outcome(self2, "resamples", 0,
                     Raised(Raise("TypeError", "number of resamples is invalid",
                                  "", self.metric, <<>>)))
        ELSE IF ~t.ok THEN Outcome(self2, "toolkit", 0, Raised(t.err))
        ELSE Outcome(self3, "", f.fetches, f.out)

---------------------------------------------------------------------------
(* The collator: import of the module, construction, get_results *)

GoodUrl == <<"https://timeseriesclassification.com", "/results/a.csv">>
BadUrl == <<"https://example.org", "/results/a.csv">>
\* another host, with the domain text in its query string
QueryUrl == <<"https://example.org", "/?from=", "https://timeseriesclassification.com">>

UrlInputs == { <<GoodUrl>>, <<BadUrl>>, <<QueryUrl, GoodUrl>>, <<GoodUrl, BadUrl>> }
ClassifierInputs == { Str("*"), Lst(<<"BOSS", "DTW">>), NoneV }
ProblemInputs == { Str("*"), Str("Adiac"), Lst(<<"Beef", PyNone>>) }
MetricInputs == { Str("accuracy"), Str("*"), Str("auc") }
ResampleInputs == (MinResamples - 1)..(MaxResamples + 1)
ToolkitInputs == { Str("sktime"), Str("*"), Str("R") }

InitCollator ==
    /\ loaded = FALSE
    /\ remote \in [EnumUrls -> ClassifierTables \cup ProblemTables]
    /\ \A u \in EnumUrls : remote[u] \in TablesOf(u)
    /\ enumCache = EmptyCache
    /\ enumFetches = NoFetches
    /\ VALID_CLASSIFIERS = <<>>
    /\ VALID_PROBLEMS = <<>>
    /\ collator = NoObject
    /\ AlignerIdle
    /\ ret = NoCall

\* import of the module: the class body evaluates
\*   VALID_CLASSIFIERS = get_enum_from_url(CLASSIFIERS_REQUEST_URL, "Acronym")
\*   VALID_PROBLEMS = get_enum_from_url(PROBLEM_REQUEST_URL, "Dataset")
\* An exception leaves the module not imported, its cache discarded with it.
Import ==
    /\ ~loaded
    /\ \E net1 \in {"ok", "fail"}, net2 \in {"ok", "fail"} :
        LET pc == <<CLASSIFIERS_REQUEST_URL, "Acronym">>
            pp == <<PROBLEM_REQUEST_URL, "Dataset">>
            r1 == get_enum_from_url(pc[1], pc[2], net1)
            r2 == get_enum_from_url(pp[1], pp[2], net2)
        IN  /\ r1.fetches[pc] <= MaxFetch
            /\ r2.fetches[pp] <= MaxFetch
            /\ IF ~r1.out.ok
               THEN /\ enumFetches' = r1.fetches
                    /\ enumCache' = EmptyCache
                    /\ ret' = [op |-> "import", out |-> r1.out]
                    /\ UNCHANGED <<loaded, VALID_CLASSIFIERS, VALID_PROBLEMS>>
               ELSE IF ~r2.out.ok
               THEN /\ enumFetches' = [r1.fetches EXCEPT ![pp] = r2.fetches[pp]]
                    /\ enumCache' = EmptyCache
                    /\ ret' = [op |-> "import", out |-> r2.out]
                    /\ UNCHANGED <<loaded, VALID_CLASSIFIERS, VALID_PROBLEMS>>
               ELSE /\ enumFetches' = [r1.fetches EXCEPT ![pp] = r2.fetches[pp]]
                    /\ enumCache' = [r1.cache EXCEPT ![pp] = r2.cache[pp]]
                    /\ VALID_CLASSIFIERS' = r1.out.value.items
                    /\ VALID_PROBLEMS' = r2.out.value.items
                    /\ loaded' = TRUE
                    /\ ret' = [op |-> "import", out |-> Returned(NoneV)]
    /\ UNCHANGED <<remote, collator, alignerVars>>

\* ClassificationResultCollator(urls, ...)
Construct ==
    /\ loaded
    /\ ~collator.exists
    /\ \E urls \in UrlInputs, classifiers \in ClassifierInputs,
          problem_list \in ProblemInputs, metric \in MetricInputs,
          resamples \in ResampleInputs, toolkit \in ToolkitInputs :
        collator' = NewCollator(urls, classifiers, problem_list, metric,
                                resamples, toolkit)
    /\ ret' = [op |-> "__init__"]
    /\ UNCHANGED <<loaded, remote, enumCache, enumFetches, VALID_CLASSIFIERS,
                   VALID_PROBLEMS, alignerVars>>

\* collator.get_results()
GetResults ==
    /\ loaded
    /\ collator.exists
    /\ \E failAt \in 0..Len(collator.urls) :
        LET r == get_results(collator, failAt)
        IN  /\ collator' = r.self
            /\ ret' = [op |-> "get_results", self |-> collator, stage |-> r.stage,
                       fetches |-> r.fetches, out |-> r.out]
    /\ UNCHANGED <<loaded, remote, enumCache, enumFetches, VALID_CLASSIFIERS,
                   VALID_PROBLEMS, alignerVars>>

NextCollator == Import \/ Construct \/ GetResults

SpecCollator == InitCollator /\ [][NextCollator]_vars

---------------------------------------------------------------------------
(* Claims about get_results *)

GetResultsCalled == ret.op = "get_results"

StageNames == <<"urls", "classifiers", "problems", "metric", "resamples", "toolkit">>

\* whether check i of the contract rejects the configuration of `self`,
\* each check taken on its own
CheckFails(self, i) ==
    CASE i = 1 -> \E k \in 1..Len(self.urls) : ~Contains(self.urls[k], VALID_DOMAIN)
      [] i = 2 -> ~_check_valid_parameters(self.classifiers, VALID_CLASSIFIERS,
                                           "classifier").ok
      [] i = 3 -> ~_check_valid_parameters(self.problem_list, VALID_PROBLEMS,
                                           "problem").ok
      [] i = 4 -> ~_check_valid_parameters(self.metric, VALID_METRICS, "metric").ok
      [] i = 5 -> self.resamples \notin MinResamples..MaxResamples
      [] i = 6 -> ~_check_valid_parameters(self.toolkit, VALID_TOOLKITS, "toolkit").ok

FailingChecks(self) == {i \in 1..6 : CheckFails(self, i)}

\* the exception check i raises for the configuration of `self` when it is
\* the one to reject it
CheckError(self, i) ==
    CASE i = 1 ->
           LET k == CHOOSE k \in 1..Len(self.urls) :
                        /\ ~Contains(self.urls[k], VALID_DOMAIN)
                        /\ \A j \in 1..(k - 1) : Contains(self.urls[j], VALID_DOMAIN)
           IN  Raise("TypeError", "url is invalid", "", Lst(self.urls[k]), VALID_DOMAIN)
      [] i = 2 -> _check_valid_parameters(self.classifiers, VALID_CLASSIFIERS,
                                          "classifier").err
      [] i = 3 -> _check_valid_parameters(self.problem_list, VALID_PROBLEMS,
                                          "problem").err
      [] i = 4 -> _check_valid_parameters(self.metric, VALID_METRICS, "metric").err
      [] i = 5 -> Raise("TypeError", "number of resamples is invalid", "",
                        self.metric, <<>>)
      [] i = 6 -> _check_valid_parameters(self.toolkit, VALID_TOOLKITS, "toolkit").err

RECURSIVE SumOver(_, _)
SumOver(f, S) == IF S = {} THEN 0
                 ELSE LET x == CHOOSE x \in S : TRUE
                      IN  f[x] + SumOver(f, S \ {x})

\* requests.get calls made by get_enum_from_url since the process started
TotalEnumFetches == SumOver(enumFetches, LookupPairs)

\* C1: the checks run in the order url, classifiers, problems, metric,
\* resamples, toolkit: when one or more of them reject the configuration,
\* get_results raises at the earliest of them and makes no result-data fetch.
C1_FirstFailingCheck ==
    GetResultsCalled =>
        LET failing == FailingChecks(ret.self)
        IN  failing # {} =>
                /\ ~ret.out.ok
                /\ \E i \in failing :
                       /\ \A j \in failing : i <= j
                       /\ ret.stage = StageNames[i]
                       /\ ret.out.err = CheckError(ret.self, i)
                /\ ret.fetches = 0

\* C1 witness: metric, resamples and toolkit are all invalid and the error
\* is the metric's
C1_Witness ==
    /\ GetResultsCalled
    /\ FailingChecks(ret.self) = {4, 5, 6}
    /\ ret.stage = "metric"
    /\ ret.out.err.parameter = "metric"
    /\ ret.fetches = 0

\* C2 (as claimed): when get_results raises the invalid-source error for a
\* collator configured with one untrusted url, the process has made no
\* enumeration fetch.
C2_NoEnumFetchBeforeUrlError ==
    (/\ GetResultsCalled
     /\ ret.stage = "urls"
     /\ Len(ret.self.urls) = 1)
        => TotalEnumFetches = 0

\* C4: with every other parameter valid, get_results raises the resamples
\* error, with no result-data fetch, exactly when resamples < 1 or
\* resamples > 30; for 1..30 every check passes and the fetches start.
C4_ResamplesRange ==
    (GetResultsCalled /\ FailingChecks(ret.self) \subseteq {5}) =>
        IF ret.self.resamples < 1 \/ ret.self.resamples > 30
        THEN /\ ~ret.out.ok
             /\ ret.stage = "resamples"
             /\ ret.out.err.template = "number of resamples is invalid"
             /\ ret.fetches = 0
        ELSE /\ ret.stage = ""
             /\ ret.out.ok => ret.fetches = Len(ret.self.urls)

\* C4 witness: resamples = 30 passed every check and the results were fetched
C4_Witness ==
    /\ GetResultsCalled
    /\ ret.self.resamples = 30
    /\ ret.self.metric = Str("accuracy")
    /\ ret.self.toolkit = Str("sktime")
    /\ ret.stage = ""
    /\ ret.out.ok
    /\ ret.fetches = Len(ret.self.urls)
    /\ ret.fetches > 0

\* C6 (as claimed): a metric outside the allow-list ["accuracy", "f1"],
\* the wildcard "*" included, makes get_results fail at the metric check
\* (when the url, classifier and problem checks before it pass).
C6_MetricOutsideAllowListFails ==
    (/\ GetResultsCalled
     /\ FailingChecks(ret.self) \cap {1, 2, 3} = {}
     /\ ret.self.metric.kind = "str"
     /\ ret.self.metric.s \notin Range(VALID_METRICS))
        => (~ret.out.ok /\ ret.stage = "metric")

---------------------------------------------------------------------------
(* The enumeration cache on its own: lookups against changing endpoints *)

InitEnum ==
    /\ loaded = TRUE
    /\ remote \in [EnumUrls -> ClassifierTables \cup ProblemTables]
    /\ \A u \in EnumUrls : remote[u] \in TablesOf(u)
    /\ enumCache = EmptyCache
    /\ enumFetches = NoFetches
    /\ VALID_CLASSIFIERS = <<>>
    /\ VALID_PROBLEMS = <<>>
    /\ collator = NoObject
    /\ AlignerIdle
    /\ ret = NoCall

\* a caller invokes get_enum_from_url(url, key)
Lookup ==
    \E p \in LookupPairs, net \in {"ok", "fail"} :
        LET r == get_enum_from_url(p[1], p[2], net)
        IN  /\ r.fetches[p] <= MaxFetch
            /\ enumCache' = r.cache
            /\ enumFetches' = r.fetches
            /\ ret' = [op |-> "get_enum_from_url", url |-> p[1], key |-> p[2],
                       fetched |-> r.fetched, out |-> r.out]
            /\ UNCHANGED <<loaded, remote, VALID_CLASSIFIERS, VALID_PROBLEMS,
                           collator, alignerVars>>

\* the site changes what an endpoint serves
RemoteChange ==
    \E u \in EnumUrls, t \in ClassifierTables \cup ProblemTables :
        /\ t \in TablesOf(u)
        /\ t # remote[u]
        /\ remote' = [remote EXCEPT ![u] = t]
        /\ UNCHANGED <<loaded, enumCache, enumFetches, VALID_CLASSIFIERS,
                       VALID_PROBLEMS, collator, alignerVars, ret>>

NextEnum == Lookup \/ RemoteChange

SpecEnum == InitEnum /\ [][NextEnum]_vars

\* C3: a successful lookup of a pair that an earlier lookup already
\* returned makes no fetch and returns the memoized list; a successful
\* lookup of any other pair makes exactly one fetch, of that pair alone, and
\* returns the value under key of every record in source order; so each
\* pair is fetched once, independently of the other keys of the same url.
C3_OneFetchPerPair ==
    [][ (ret'.op = "get_enum_from_url" /\ ret'.out.ok) =>
            LET p == <<ret'.url, ret'.key>>
                now == remote[ret'.url]
            IN  IF enumCache[p].hit
                THEN /\ enumFetches' = enumFetches
                     /\ ret'.out.value = Lst(enumCache[p].list)
                     /\ enumCache' = enumCache
                ELSE /\ enumFetches' = [enumFetches EXCEPT ![p] = @ + 1]
                     /\ ret'.out.value.kind = "list"
                     /\ Len(ret'.out.value.items) = Len(now)
                     /\ \A i \in 1..Len(now) :
                            ret'.out.value.items[i] = now[i][ret'.key]
                     /\ enumCache'[p] = [hit |-> TRUE, list |-> ret'.out.value.items]
                     /\ \A q \in LookupPairs \ {p} : enumCache'[q] = enumCache[q]
      ]_vars

\* C3 witness: a repeated lookup answered from the cache after the endpoint
\* changed, with a second key of the same url fetched once on its own
C3_Witness ==
    /\ ret.op = "get_enum_from_url"
    /\ ret.out.ok
    /\ ~ret.fetched
    /\ ret.url = CLASSIFIERS_REQUEST_URL
    /\ ret.key = "Acronym"
    /\ enumFetches[<<CLASSIFIERS_REQUEST_URL, "Acronym">>] = 1
    /\ enumFetches[<<CLASSIFIERS_REQUEST_URL, "Type">>] = 1
    /\ enumCache[<<CLASSIFIERS_REQUEST_URL, "Type">>].hit
    /\ ret.out.value = Lst(<<"BOSS", "TSF">>)
    /\ remote[CLASSIFIERS_REQUEST_URL][1].Acronym = "TSF"

---------------------------------------------------------------------------
(* dtw_python: AlignerDTW and AlignerDTWdist *)

\* isinstance(obj, cls) for an object of class `type`. DualAligner stands
\* for a class a caller derives from both adapters,
\*     class DualAligner(AlignerDTW, AlignerDTWdist)
\* whose methods are AlignerDTW's (first in the method resolution order).
IsInstance(type, cls) ==
    \/ type = cls
    \/ type = "DualAligner" /\ cls \in {"AlignerDTW", "AlignerDTWdist"}

NoAlignment == [exists |-> FALSE]

\* what the external dtw engine hands back (keep_internals=True keeps its
\* inputs): the overall distance and the inputs it aligned
Alignment(d, args) == [exists |-> TRUE, distance |-> d, internals |-> args]

NoX == <<>>

\* AlignerDTW.__init__ run on a new object of class `type`:
\* super(AlignerDTWdist, self) raises TypeError unless self is an instance
\* of AlignerDTWdist
AlignerDTW_init(type, dist_method, step_pattern, window_type, open_begin, open_end, variable_to_align) ==
    IF ~IsInstance(type, "AlignerDTWdist")
    THEN [self |-> NoObject,
          out |-> Raised(Raise("TypeError",
                     "super(type, obj): obj must be an instance or subtype of type",
                     "", NoneV, <<>>))]
    ELSE [self |-> [exists |-> TRUE, type |-> type,
                    dist_method |-> dist_method,
                    step_pattern |-> step_pattern,
                    window_type |-> window_type,
                    open_begin |-> open_begin,
                    open_end |-> open_end,
                    variable_to_align |-> variable_to_align,
                    alignment |-> NoAlignment,
                    X |-> NoX],
          out |-> Returned(NoneV)]

\* AlignerDTWdist.__init__
AlignerDTWdist_init(dist_trafo, step_pattern, window_type, open_begin, open_end) ==
    IF dist_trafo = PyNone
    THEN [self |-> NoObject,
          out |-> Raised(Raise("ValueError", "No component dist_trafo provided",
                               "", NoneV, <<>>))]
    ELSE [self |-> [exists |-> TRUE, type |-> "AlignerDTWdist",
                    dist_trafo |-> dist_trafo,
                    step_pattern |-> step_pattern,
                    window_type |-> window_type,
                    open_begin |-> open_begin,
                    open_end |-> open_end,
                    alignment |-> NoAlignment,
                    X |-> NoX],
          out |-> Returned(NoneV)]

\* a fit's result: the object afterwards, the arguments the external engine
\* was called with (called = FALSE if it was not reached) and the outcome
FitResult(self, called, args, out) ==
    [self |-> self, called |-> called, args |-> args, out |-> out]

NoArgs == [x |-> NoneV, y |-> NoneV]

\* X1[var_to_align].values: the column of a frame as a vector
Column(frame, var) == [kind |-> "vector", of |-> frame, col |-> var]

\* AlignerDTW._fit with the test of X[1] made before the test of X[0]
AlignerDTW_fit_X1First(self, X, engine) ==
    LET X1 == X[1]
        X2 == X[2]
        columns1 == X1.columns
        columns2 == X2.columns
        given == self.variable_to_align
    IN  IF given = PyNone /\ Len(columns1) = 0
        THEN FitResult(self, FALSE, NoArgs,
                       Raised(Raise("IndexError", "index 0 is out of bounds",
                                    "", NoneV, <<>>)))
        ELSE
        LET var_to_align == IF given = PyNone THEN columns1[1] ELSE given
            args == [x |-> Column(X1, var_to_align),
                     y |-> Column(X2, var_to_align),
                     dist_method |-> self.dist_method,
                     step_pattern |-> self.step_pattern,
                     window_type |-> self.window_type,
                     open_begin |-> self.open_begin,
                     open_end |-> self.open_end,
                     keep_internals |-> TRUE]
        IN  IF var_to_align \notin Range(columns2)
            THEN FitResult(self, FALSE, NoArgs,
                           Raised(Raise("ValueError", "X[1] does not have variable",
                                        "", Str(var_to_align), <<>>)))
            ELSE IF var_to_align \notin Range(columns1)
            THEN FitResult(self, FALSE, NoArgs,
                           Raised(Raise("ValueError", "X[0] does not have variable",
                                        "", Str(var_to_align), <<>>)))
            ELSE IF engine.raises
            THEN FitResult(self, TRUE, args,
                           Raised(Raise("ValueError", "raised by dtw", "", NoneV, <<>>)))
            ELSE FitResult([self EXCEPT !.alignment = Alignment(engine.distance, args),
                                        !.X = X,
                                        !.variable_to_align = var_to_align],
                           TRUE, args, Returned(NoneV))

\* AlignerDTW._fit(X). X is the pair of frames, X[1] the source's X[0];
\* engine is what the external dtw call does if it is reached: it raises, or
\* returns an alignment with the overall distance engine.distance.
AlignerDTW_fit(self, X, engine) ==
    LET X1 == X[1]
        X2 == X[2]
        columns1 == X1.columns
        columns2 == X2.columns
        given == self.variable_to_align
    IN  \* X1.columns.values[0] of a frame without columns
        IF given = PyNone /\ Len(columns1) = 0
        THEN FitResult(self, FALSE, NoArgs,
                       Raised(Raise("IndexError", "index 0 is out of bounds",
                                    "", NoneV, <<>>)))
        ELSE
        LET var_to_align == IF given = PyNone THEN columns1[1] ELSE given
            args == [x |-> Column(X1, var_to_align),
                     y |-> Column(X2, var_to_align),
                     dist_method |-> self.dist_method,
                     step_pattern |-> self.step_pattern,
                     window_type |-> self.window_type,
                     open_begin |-> self.open_begin,
                     open_end |-> self.open_end,
                     keep_internals |-> TRUE]
        IN  IF var_to_align \notin Range(columns1)
            THEN FitResult(self, FALSE, NoArgs,
                           Raised(Raise("ValueError", "X[0] does not have variable",
                                        "", Str(var_to_align), <<>>)))
            ELSE IF var_to_align \notin Range(columns2)
            THEN FitResult(self, FALSE, NoArgs,
                           Raised(Raise("ValueError", "X[1] does not have variable",
                                        "", Str(var_to_align), <<>>)))
            ELSE IF engine.raises
            THEN FitResult(self, TRUE, args,
                           Raised(Raise("ValueError", "raised by dtw", "", NoneV, <<>>)))
            ELSE FitResult([self EXCEPT !.alignment = Alignment(engine.distance, args),
                                        !.X = X,
                                        !.variable_to_align = var_to_align],
                           TRUE, args, Returned(NoneV))

\* AlignerDTWdist._fit(X). trafo is what dist_trafo(X1, X2) does: "raise" or
\* "ok"; engine as above.
AlignerDTWdist_fit(self, X, trafo, engine) ==
    LET X1 == X[1]
        X2 == X[2]
        distmat == [kind |-> "distmat", by |-> self.dist_trafo, of |-> <<X1, X2>>]
        args == [x |-> distmat,
                 y |-> NoneV,
                 step_pattern |-> self.step_pattern,
                 window_type |-> self.window_type,
                 open_begin |-> self.open_begin,
                 open_end |-> self.open_end,
                 keep_internals |-> TRUE]
    IN  IF trafo = "raise"
        THEN FitResult(self, FALSE, NoArgs,
                       Raised(Raise("ValueError", "raised by dist_trafo", "", NoneV, <<>>)))
        ELSE IF engine.raises
        THEN FitResult(self, TRUE, args,
                       Raised(Raise("ValueError", "raised by dtw", "", NoneV, <<>>)))
        ELSE FitResult([self EXCEPT !.alignment = Alignment(engine.distance, args),
                                    !.X = X],
                       TRUE, args, Returned(NoneV))

Float(x) == [kind |-> "float", x |-> x]
\* a two-dimensional float array, row by row
NdArray(rows) == [kind |-> "ndarray", rows |-> rows]

NoAttribute(name) == Raised(Raise("AttributeError", "object has no attribute",
                                  "", Str(name), <<>>))

\* get_distance of either class: self.alignment.distance
get_distance(self) ==
    IF ~self.alignment.exists THEN NoAttribute("alignment")
    ELSE Returned(Float(self.alignment.distance))

\* get_distance_matrix without the assignment to distmat[1, 0]
GetDistanceMatrixUpperOnly(self) ==
    IF ~self.alignment.exists THEN NoAttribute("alignment")
    ELSE Returned(NdArray(<< <<0, self.alignment.distance>>, <<0, 0>> >>))

\* AlignerDTW.get_distance_matrix: np.zeros((2, 2)) with the distance
\* written to [0, 1] and [1, 0]
AlignerDTW_get_distance_matrix(self) ==
    IF ~self.alignment.exists THEN NoAttribute("alignment")
    ELSE LET zeros == [i \in 1..2 |-> [j \in 1..2 |-> 0]]
             d01 == [zeros EXCEPT ![1][2] = self.alignment.distance]
             d10 == [d01 EXCEPT ![2][1] = self.alignment.distance]
         IN  Returned(NdArray(d10))

\* AlignerDTWdist.get_distance_matrix: the same statements
AlignerDTWdist_get_distance_matrix(self) ==
    IF ~self.alignment.exists THEN NoAttribute("alignment")
    ELSE LET zeros == [i \in 1..2 |-> [j \in 1..2 |-> 0]]
             d01 == [zeros EXCEPT ![1][2] = self.alignment.distance]
             d10 == [d01 EXCEPT ![2][1] = self.alignment.distance]
         IN  Returned(NdArray(d10))

\* the method an object's class resolves get_distance_matrix to
get_distance_matrix(self) ==
    IF IsInstance(self.type, "AlignerDTW")
    THEN AlignerDTW_get_distance_matrix(self)
    ELSE AlignerDTWdist_get_distance_matrix(self)

---------------------------------------------------------------------------
(* The aligners: construction, fit, queries *)

\* the frames passed to fit: their column names, in order
Frames == { [columns |-> <<"a", "b">>], [columns |-> <<"b", "a">>],
            [columns |-> <<"a">>], [columns |-> <<>>] }
Panels == Frames \X Frames

\* the configurations the runs construct with: the defaults of __init__ and
\* one with every argument changed
AlignerConfigs ==
    { [dist_method |-> "euclidean", step_pattern |-> "symmetric2",
       window_type |-> "none", open_begin |-> FALSE, open_end |-> FALSE],
      [dist_method |-> "cityblock", step_pattern |-> "asymmetric",
       window_type |-> "itakura", open_begin |-> TRUE, open_end |-> TRUE] }
Variables == {PyNone, "a", "b"}
Trafos == {PyNone, "trafo"}
EngineOutcomes == {[raises |-> TRUE, distance |-> 0]}
                      \cup {[raises |-> FALSE, distance |-> d] : d \in 0..MaxDist}

InitAligner ==
    /\ CollatorIdle
    /\ aligner = NoObject
    /\ constructed = NoObject
    /\ engineCalls = 0
    /\ ret = NoCall

\* AlignerDTW(...) or DualAligner(...): AlignerDTW.__init__ runs
ConstructDTW ==
    /\ ~aligner.exists
    /\ \E type \in {"AlignerDTW", "DualAligner"}, c \in AlignerConfigs,
          va \in Variables :
        LET r == AlignerDTW_init(type, c.dist_method, c.step_pattern,
                                 c.window_type, c.open_begin, c.open_end, va)
        IN  /\ aligner' = r.self
            /\ constructed' = IF r.out.ok
                               THEN [exists |-> TRUE, config |-> c,
                                     variable_to_align |-> va]
                               ELSE NoObject
            /\ ret' = [op |-> "AlignerDTW.__init__", type |-> type,
                       config |-> c, variable_to_align |-> va, out |-> r.out]
    /\ UNCHANGED <<collatorVars, engineCalls>>

\* AlignerDTWdist(...)
ConstructDTWdist ==
    /\ ~aligner.exists
    /\ \E dt \in Trafos, c \in AlignerConfigs :
        LET r == AlignerDTWdist_init(dt, c.step_pattern, c.window_type,
                                     c.open_begin, c.open_end)
        IN  /\ aligner' = r.self
            /\ constructed' = IF r.out.ok
                               THEN [exists |-> TRUE, config |-> c,
                                     dist_trafo |-> dt]
                               ELSE NoObject
            /\ ret' = [op |-> "AlignerDTWdist.__init__", type |-> "AlignerDTWdist",
                       config |-> c, dist_trafo |-> dt, out |-> r.out]
    /\ UNCHANGED <<collatorVars, engineCalls>>

\* fit on an object whose _fit is AlignerDTW._fit
FitDTW ==
    /\ aligner.exists
    /\ IsInstance(aligner.type, "AlignerDTW")
    /\ \E X \in Panels, engine \in EngineOutcomes :
        LET r == AlignerDTW_fit(aligner, X, engine)
            calls == engineCalls + (IF r.called THEN 1 ELSE 0)
        IN  /\ calls <= MaxEngineCalls
            /\ aligner' = r.self
            /\ engineCalls' = calls
            /\ ret' = [op |-> "_fit", self |-> aligner, X |-> X,
                       called |-> r.called, args |-> r.args, out |-> r.out]
    /\ UNCHANGED <<collatorVars, constructed>>

\* fit on an AlignerDTWdist
FitDTWdist ==
    /\ aligner.exists
    /\ ~IsInstance(aligner.type, "AlignerDTW")
    /\ \E X \in Panels, trafo \in {"ok", "raise"}, engine \in EngineOutcomes :
        LET r == AlignerDTWdist_fit(aligner, X, trafo, engine)
            calls == engineCalls + (IF r.called THEN 1 ELSE 0)
        IN  /\ calls <= MaxEngineCalls
            /\ aligner' = r.self
            /\ engineCalls' = calls
            /\ ret' = [op |-> "_fit", self |-> aligner, X |-> X,
                       called |-> r.called, args |-> r.args, out |-> r.out]
    /\ UNCHANGED <<collatorVars, constructed>>

GetDistance ==
    /\ aligner.exists
    /\ ret' = [op |-> "get_distance", out |-> get_distance(aligner)]
    /\ UNCHANGED <<collatorVars, aligner, constructed, engineCalls>>

GetDistanceMatrix ==
    /\ aligner.exists
    /\ ret' = [op |-> "get_distance_matrix", out |-> get_distance_matrix(aligner)]
    /\ UNCHANGED <<collatorVars, aligner, constructed, engineCalls>>

NextAligner ==
    \/ ConstructDTW
    \/ ConstructDTWdist
    \/ FitDTW
    \/ FitDTWdist
    \/ GetDistance
    \/ GetDistanceMatrix

SpecAligner == InitAligner /\ [][NextAligner]_vars

---------------------------------------------------------------------------
(* Claims about the aligners *)

\* C8 (as claimed): constructing an AlignerDTW succeeds for every
\* configuration, the all-defaults one included, and leaves an object that
\* stores the six configuration values.
C8_ConstructionSucceeds ==
    (ret.op = "AlignerDTW.__init__" /\ ret.type = "AlignerDTW") =>
        /\ ret.out.ok
        /\ aligner.exists
        /\ aligner.dist_method = ret.config.dist_method
        /\ aligner.step_pattern = ret.config.step_pattern
        /\ aligner.window_type = ret.config.window_type
        /\ aligner.open_begin = ret.config.open_begin
        /\ aligner.open_end = ret.config.open_end
        /\ aligner.variable_to_align = ret.variable_to_align

VectorFit == ret.op = "_fit" /\ IsInstance(ret.self.type, "AlignerDTW")

\* C9: in AlignerDTW._fit with a target column set, a column absent from
\* X[0] raises the error naming X[0], and a column present in X[0] but
\* absent from X[1] raises the error naming X[1]; in both cases the external
\* engine is not called and the object, its stored alignment included, is
\* left as it was; and whenever the engine is called with a target column
\* set, both vectors passed are that column.
C9_MissingTargetColumn ==
    (VectorFit /\ ret.self.variable_to_align # PyNone) =>
        LET var == ret.self.variable_to_align
            in0 == \E i \in 1..Len(ret.X[1].columns) : ret.X[1].columns[i] = var
            in1 == \E i \in 1..Len(ret.X[2].columns) : ret.X[2].columns[i] = var
        IN  /\ ~in0 =>
                /\ ~ret.out.ok
                /\ ret.out.err.exc = "ValueError"
                /\ ret.out.err.template = "X[0] does not have variable"
                /\ ret.out.err.value = Str(var)
                /\ ~ret.called
                /\ aligner = ret.self
            /\ (in0 /\ ~in1) =>
                /\ ~ret.out.ok
                /\ ret.out.err.exc = "ValueError"
                /\ ret.out.err.template = "X[1] does not have variable"
                /\ ret.out.err.value = Str(var)
                /\ ~ret.called
                /\ aligner = ret.self
            /\ ret.called =>
                /\ ret.args.x = Column(ret.X[1], var)
                /\ ret.args.y = Column(ret.X[2], var)

\* C9 witness: an object fitted before is fitted again on a pair whose
\* second frame lacks the target column; the error names X[1] and the
\* earlier alignment is still the one stored
C9_Witness ==
    /\ VectorFit
    /\ ret.self.variable_to_align = "b"
    /\ ret.X = <<[columns |-> <<"a", "b">>], [columns |-> <<"a">>]>>
    /\ ret.out.err.template = "X[1] does not have variable"
    /\ ~ret.called
    /\ engineCalls = 1
    /\ aligner.alignment.exists
    /\ aligner.alignment = ret.self.alignment

\* C10: once a fit has succeeded, on either adapter and after any refit,
\* get_distance_matrix returns a 2 x 2 array with zeros on the diagonal and
\* the value get_distance returns in both other cells.
C10_DistanceMatrix ==
    (ret.op = "get_distance_matrix" /\ aligner.alignment.exists) =>
        /\ ret.out.ok
        /\ get_distance(aligner).ok
        /\ LET m == ret.out.value.rows
               d == get_distance(aligner).value.x
           IN  /\ Len(m) = 2
               /\ \A i \in 1..2 : Len(m[i]) = 2
               /\ m[1][1] = 0
               /\ m[2][2] = 0
               /\ m[1][2] = d
               /\ m[2][1] = d

\* C10 witness: the matrix of an AlignerDTWdist fitted twice, the second
\* fit with another distance than the first
C10_Witness ==
    /\ ret.op = "get_distance_matrix"
    /\ aligner.type = "AlignerDTWdist"
    /\ engineCalls = 2
    /\ aligner.alignment.exists
    /\ aligner.alignment.distance = 1
    /\ ret.out.value.rows = << <<0, 1>>, <<1, 0>> >>

\* C11 (as claimed): an AlignerDTW constructed with no target column aligns,
\* in every fit, the first column of the X[0] passed to that fit, also when
\* an earlier fit was given an X[0] with another first column.
C11_FirstColumnOfCurrentSeq0 ==
    (/\ VectorFit
     /\ constructed.exists
     /\ constructed.variable_to_align = PyNone
     /\ ret.called)
        => /\ ret.args.x = Column(ret.X[1], ret.X[1].columns[1])
           /\ ret.args.y = Column(ret.X[2], ret.X[1].columns[1])

====
